---- MODULE Spec2Model ----
(***************************************************************************)
(* Model of the AudioManager of src/examples/audio_manager.cpp together    *)
(* with the part of the audio engine (FMOD Core) whose state its methods   *)
(* read and write: the system object, the sound objects, the channel       *)
(* groups and the channels.  One action per public method; an action is    *)
(* the whole method, engine calls included.  Volumes are integers in       *)
(* tenths (10 is 1.0f).                                                    *)
(***************************************************************************)
EXTENDS Integers, Sequences, FiniteSets, TLC

\* ---------------------------------------------------------------- bounds
MaxInit == 2        \* engine systems ever created by initialize()
MaxSounds == 2      \* engine sound objects ever created
MaxChannels == 3    \* engine channels ever started

\* ---------------------------------------------------------------- inputs
NULL == 0
Names == {"a", "b"}             \* asset names the caller uses
Paths == {"p1", "p2"}           \* file paths the caller uses
GroupVolsIn == {-5, 5, 15}      \* volume arguments of the group setters
ChanVolsIn == {5, 10}           \* volume arguments of playSFX / playMusic
FailPoints == {0, 1, 2, 4}      \* step of initialize() that fails, 0 for none
\* The loads of main(), lines 262-264: a sample, and a streamed track.
MainLoads == {<<"a", "p1", FALSE>>, <<"b", "p2", TRUE>>}

\* enum Category and the master group, as group kinds
CATEGORY_SFX == 0
CATEGORY_MUSIC == 1
CATEGORY_VOICE == 2
KIND_MASTER == 3
Categories == {CATEGORY_SFX, CATEGORY_MUSIC, CATEGORY_VOICE}
Kinds == Categories \cup {KIND_MASTER}

VARIABLES
    system,                 \* FMOD::System* (NULL or the system's number)
    sounds,                 \* std::map<std::string, FMOD::Sound*>
    sfxGroup,               \* FMOD::ChannelGroup*
    musicGroup,             \* FMOD::ChannelGroup*
    voiceGroup,             \* FMOD::ChannelGroup*
    masterGroup,            \* FMOD::ChannelGroup*
    currentMusicChannel,    \* FMOD::Channel*
    sysGen,                 \* engine: number of system objects created
    sysState,               \* engine: state of system object number sysGen
    sndObj,                 \* engine: sound objects, sound handle = index
    chan,                   \* engine: channels, channel handle = index
    groupVol,               \* engine: volume of the live system's groups
    op,                     \* the last method called and its arguments
    ret,                    \* its return value (TRUE for void methods)
    calls,                  \* the engine calls it made, in order
    before,                 \* the music slot as it was when it was called
    fatal,                  \* the process was terminated: a fault, or exit(-1)
    pc,                     \* example programs: the position of main()
    channel,                \* example programs: FMOD::Channel* of main()
    isPlaying,              \* basic_playback.cpp: bool isPlaying
    elapsedTime,            \* 3d_audio.cpp, streaming.cpp: in update intervals
    angle,                  \* 3d_audio.cpp: float angle, on the grid of AngleStep
    trig,                   \* 3d_audio.cpp: <<cos(angle), sin(angle)>>, times Scale
    soundPos,               \* 3d_audio.cpp: FMOD_VECTOR soundPos, times Scale
    soundVel                \* 3d_audio.cpp: FMOD_VECTOR soundVel, times Scale * 1000

vars == <<system, sounds, sfxGroup, musicGroup, voiceGroup, masterGroup,
          currentMusicChannel, sysGen, sysState, sndObj, chan, groupVol,
          op, ret, calls, before, fatal, pc, channel, isPlaying, elapsedTime,
          angle, trig, soundPos, soundVel>>

mgrVars == <<system, sounds, sfxGroup, musicGroup, voiceGroup, masterGroup,
             currentMusicChannel>>
groupPtrs == <<sfxGroup, musicGroup, voiceGroup, masterGroup>>
\* The locals of the example programs' main().
exVars == <<pc, channel, isPlaying, elapsedTime, angle, trig, soundPos, soundVel>>
orbitVars == <<trig, soundPos, soundVel>>

\* ------------------------------------------------------- engine handles
\* A channel group object of system number g and kind k.
GroupHandle(g, k) == 4 * g + k
GroupGen(h) == h \div 4
GroupKind(h) == h % 4

\* The engine system is initialized and not released.
SystemLive == sysState = "inited"

\* A group pointer designates a group of the live system.
GroupValid(h) == h # NULL /\ SystemLive /\ GroupGen(h) = sysGen

ChannelIds == 1..Len(chan)
\* A channel is live while it is playing or paused.
ChannelLive(c) == c \in ChannelIds /\ chan[c].state \in {"playing", "paused"}

\* One engine call: the function, the handle it is made on, a value.
Call(fn, obj, val) == [fn |-> fn, obj |-> obj, val |-> val]

\* Music slot states of the playback controller.
SlotStateOf(c) ==
    IF ChannelLive(c) THEN (IF chan[c].state = "paused" THEN "Paused" ELSE "Playing")
    ELSE "Stopped"
SlotState == SlotStateOf(currentMusicChannel)
Snapshot == [slot |-> currentMusicChannel, state |-> SlotState]

NoCategory == NULL - 1
Op(fn, name, flag, vol) ==
    [fn |-> fn, name |-> name, flag |-> flag, vol |-> vol, cat |-> NoCategory,
     path |-> ""]
NoOp == Op("none", "", FALSE, 0)

\* ------------------------------------------------------------ constructor
\* main() of an example program has not been entered.
InitExamples ==
    /\ pc = "start"
    /\ channel = NULL
    /\ isPlaying = FALSE
    /\ elapsedTime = 0
    /\ angle = 0
    /\ trig = <<0, 0>>
    /\ soundPos = <<0, 0, 0>>
    /\ soundVel = <<0, 0, 0>>

InitManager ==
    /\ system = NULL
    /\ sounds = [n \in {} |-> NULL]
    /\ sfxGroup = NULL
    /\ musicGroup = NULL
    /\ voiceGroup = NULL
    /\ masterGroup = NULL
    /\ currentMusicChannel = NULL
    /\ sysGen = 0
    /\ sysState = "none"
    /\ sndObj = << >>
    /\ chan = << >>
    /\ groupVol = [k \in Kinds |-> 10]
    /\ op = NoOp
    /\ ret = TRUE
    /\ calls = << >>
    /\ before = [slot |-> NULL, state |-> "Stopped"]
    /\ fatal = FALSE

Init == InitManager /\ InitExamples

\* ------------------------------------------------------------- initialize
\* The steps of initialize(), in order; failAt = 0 when none fails.
InitSteps == <<"System_Create", "init", "createChannelGroup SFX",
               "createChannelGroup Music", "createChannelGroup Voice",
               "getMasterChannelGroup">>

\* An initialize() whose checkError tests do not return: the steps after
\* the failing one are performed all the same.
StepDoneNoReturn(failAt, i) == failAt # i

\* Step i of initialize() is reached and succeeds.
StepDone(failAt, i) == failAt = 0 \/ failAt > i

\* The engine calls initialize() makes when step failAt fails.
InitCalls(failAt) ==
    [i \in 1..(IF failAt = 0 THEN 6 ELSE failAt) |-> Call(InitSteps[i], sysGen + 1, 0)]

Initialize(failAt) ==
    /\ ~fatal
    /\ UNCHANGED exVars
    /\ sysState # "inited"
    /\ sysGen < MaxInit
    /\ op' = Op("initialize", "", FALSE, failAt)
    /\ before' = Snapshot
    /\ calls' = InitCalls(failAt)
    /\ ret' = (failAt = 0)
    /\ IF StepDone(failAt, 1)
         THEN /\ sysGen' = sysGen + 1
              /\ system' = sysGen + 1
              /\ sysState' = IF StepDone(failAt, 2) THEN "inited" ELSE "created"
              /\ groupVol' = [k \in Kinds |-> 10]
         ELSE UNCHANGED <<sysGen, system, sysState, groupVol>>
    /\ sfxGroup' = IF StepDone(failAt, 3)
                     THEN GroupHandle(sysGen + 1, CATEGORY_SFX) ELSE sfxGroup
    /\ musicGroup' = IF StepDone(failAt, 4)
                       THEN GroupHandle(sysGen + 1, CATEGORY_MUSIC) ELSE musicGroup
    /\ voiceGroup' = IF StepDone(failAt, 5)
                       THEN GroupHandle(sysGen + 1, CATEGORY_VOICE) ELSE voiceGroup
    /\ masterGroup' = IF StepDone(failAt, 6)
                        THEN GroupHandle(sysGen + 1, KIND_MASTER) ELSE masterGroup
    /\ UNCHANGED <<sounds, currentMusicChannel, sndObj, chan, fatal>>

\* -------------------------------------------------------------- loadSound
\* sounds.find(name) != sounds.end()
Loaded(name) == name \in DOMAIN sounds

\* A load that never streams.
CreateFnSoundOnly(isStream) == "createSound"

\* The engine call loadSound selects by isStream.
CreateFn(isStream) == IF isStream THEN "createStream" ELSE "createSound"

\* sounds[name] = sound
CacheInsert(name, sound) ==
    [n \in DOMAIN sounds \cup {name} |-> IF n = name THEN sound ELSE sounds[n]]

\* A load that skips the cache lookup.
AlreadyLoadedNever(name) == FALSE

\* Lines 101-104: the name is in the cache, loadSound returns at once.
AlreadyLoaded(name) == Loaded(name)

\* A load that caches the sound pointer before it tests the result.
CacheAfterLoadAlways(name, created, sound) ==
    CacheInsert(name, IF created THEN sound ELSE NULL)

\* Lines 117-121: the cache after the engine call; a failed call returns
\* before the insertion.
CacheAfterLoad(name, created, sound) ==
    IF created THEN CacheInsert(name, sound) ELSE sounds

\* engineOk: the engine can create a resource from filepath.
\* crash: the outcome of a call made through a null system pointer.
LoadSound(name, filepath, isStream, engineOk, crash) ==
    /\ ~fatal
    /\ UNCHANGED exVars
    /\ op' = [Op("loadSound", name, isStream, 0) EXCEPT !.path = filepath]
    /\ before' = Snapshot
    /\ UNCHANGED <<system, groupPtrs, currentMusicChannel, sysGen, sysState,
                   chan, groupVol>>
    /\ IF AlreadyLoaded(name)
         THEN /\ ret' = TRUE
              /\ calls' = << >>
              /\ UNCHANGED <<sounds, sndObj, fatal>>
         ELSE /\ calls' = <<Call(CreateFn(isStream), system, filepath)>>
              /\ IF system = NULL
                   THEN /\ fatal' = crash
                        /\ ret' = FALSE
                        /\ UNCHANGED <<sounds, sndObj>>
                   ELSE LET created == SystemLive /\ engineOk
                                           /\ Len(sndObj) < MaxSounds
                        IN  /\ fatal' = FALSE
                            /\ sndObj' = IF created
                                 THEN Append(sndObj, [path |-> filepath,
                                        stream |-> CreateFn(isStream) = "createStream",
                                        state |-> "loaded"])
                                 ELSE sndObj
                            /\ sounds' = CacheAfterLoad(name, created,
                                                        Len(sndObj) + 1)
                            /\ ret' = created

\* ------------------------------------------------- engine channel calls
\* An isPlaying that is false for a paused channel.
IsPlayingNotPaused(ch, c) == c \in 1..Len(ch) /\ ch[c].state = "playing"

\* Channel::isPlaying: true for a playing or a paused channel; a handle
\* whose channel has ended, was stopped or was released gives
\* FMOD_ERR_INVALID_HANDLE and leaves the caller's false.
IsPlaying(ch, c) == c \in 1..Len(ch) /\ ch[c].state \in {"playing", "paused"}

\* The engine frees a channel that was stopped, reached its end or was
\* released with its system: its handle stays invalid from then on.
Dead == [state |-> "ended", group |-> KIND_MASTER, loop |-> FALSE, vol |-> 0,
         by |-> "none"]

\* Channel::stop on channel c of channel table ch.
ChannelStop(ch, c) ==
    IF IsPlaying(ch, c) THEN [ch EXCEPT ![c] = Dead] ELSE ch

\* A setPaused that flips the paused state whatever its argument.
ChannelSetPausedToggle(ch, c, pause) ==
    IF IsPlaying(ch, c)
      THEN [ch EXCEPT ![c].state = IF @ = "playing" THEN "paused" ELSE "playing"]
      ELSE ch

\* Channel::setPaused
ChannelSetPaused(ch, c, pause) ==
    IF IsPlaying(ch, c)
      THEN [ch EXCEPT ![c].state = IF pause THEN "paused" ELSE "playing"]
      ELSE ch

\* A playSound that leaves every channel in the master group.
PlaySoundNoGroup(ch, group, starter) ==
    Append(ch, [state |-> "playing", group |-> KIND_MASTER, loop |-> FALSE,
                vol |-> 10, by |-> starter])

\* System::playSound(sound, group, false, &channel): the new channel table.
\* A null group routes the channel to the master group.
PlaySound(ch, group, starter) ==
    Append(ch, [state |-> "playing",
                group |-> IF group = NULL THEN KIND_MASTER ELSE GroupKind(group),
                loop |-> FALSE, vol |-> 10, by |-> starter])

\* A call that passes a group pointer of a released system.
StaleGroup(group) == group # NULL /\ ~GroupValid(group)

\* The engine starts one more channel (engineOk: playSound returns FMOD_OK).
CanPlay(ch, group, engineOk) ==
    /\ engineOk
    /\ SystemLive
    /\ ~StaleGroup(group)
    /\ Len(ch) < MaxChannels

\* Channel::setVolume and Channel::setMode on the channel just started.
ChannelSetup(ch, c, volume, loop) ==
    [ch EXCEPT ![c].vol = volume, ![c].loop = loop]

\* ---------------------------------------------------------------- playSFX
PlaySFX(name, volume, engineOk, crash) ==
    /\ ~fatal
    /\ UNCHANGED exVars
    /\ op' = Op("playSFX", name, FALSE, volume)
    /\ before' = Snapshot
    /\ ret' = TRUE
    /\ UNCHANGED <<mgrVars, sysGen, sysState, sndObj, groupVol>>
    /\ IF ~Loaded(name)
         THEN /\ calls' = << >>
              /\ UNCHANGED <<chan, fatal>>
         ELSE LET new == Len(chan) + 1
                  played == CanPlay(chan, sfxGroup, engineOk)
              IN  /\ fatal' = (StaleGroup(sfxGroup) /\ crash)
                  /\ calls' = <<Call("playSound", sounds[name], sfxGroup)>> \o
                              (IF played THEN <<Call("setVolume", new, volume)>>
                                         ELSE << >>)
                  /\ chan' = IF played
                               THEN ChannelSetup(PlaySound(chan, sfxGroup, "sfx"),
                                                 new, volume, FALSE)
                               ELSE chan

\* -------------------------------------------------------------- playMusic
\* A playMusic that stops the channel it holds without asking whether it
\* still plays.
StopCurrentCallsNoQuery(c) ==
    IF c = NULL THEN << >> ELSE <<Call("stop", c, 0)>>

\* Lines 149-155: the engine calls made to stop the current music.
StopCurrentCalls(c) ==
    IF c = NULL THEN << >>
    ELSE <<Call("isPlaying", c, 0)>> \o
         (IF IsPlaying(chan, c) THEN <<Call("stop", c, 0)>> ELSE << >>)

\* A playMusic that takes a paused channel for one that is not playing.
StopCurrentPlayingOnly(c) ==
    IF c \in ChannelIds /\ chan[c].state = "playing" THEN ChannelStop(chan, c)
    ELSE chan

\* Lines 149-155: the channel table after them.
StopCurrent(c) ==
    IF c # NULL /\ IsPlaying(chan, c) THEN ChannelStop(chan, c) ELSE chan

\* Line 158: what playSound leaves in currentMusicChannel, its channel
\* out-parameter: the new channel, or null when it starts none (line 160
\* tests for that).
MusicChannelOut(played, new) == IF played THEN new ELSE NULL

\* A playMusic that stops the current music before it looks the name up.
MusicNotLoadedStops ==
    /\ calls' = StopCurrentCalls(currentMusicChannel)
    /\ chan' = StopCurrent(currentMusicChannel)
    /\ UNCHANGED <<currentMusicChannel, fatal>>

\* Lines 143-146: the name is not in the cache, playMusic returns.
MusicNotLoaded ==
    /\ calls' = << >>
    /\ UNCHANGED <<currentMusicChannel, chan, fatal>>

PlayMusic(name, loop, volume, engineOk, crash) ==
    /\ ~fatal
    /\ UNCHANGED exVars
    /\ op' = Op("playMusic", name, loop, volume)
    /\ before' = Snapshot
    /\ ret' = TRUE
    /\ UNCHANGED <<system, sounds, groupPtrs, sysGen, sysState, sndObj, groupVol>>
    /\ IF ~Loaded(name)
         THEN MusicNotLoaded
         ELSE LET ch1 == StopCurrent(currentMusicChannel)
                  new == Len(ch1) + 1
                  played == CanPlay(ch1, musicGroup, engineOk)
              IN  /\ fatal' = (StaleGroup(musicGroup) /\ crash)
                  /\ calls' = StopCurrentCalls(currentMusicChannel) \o
                              <<Call("playSound", sounds[name], musicGroup)>> \o
                              (IF played
                                 THEN <<Call("setVolume", new, volume),
                                        Call("setMode", new, IF loop THEN 1 ELSE 0)>>
                                 ELSE << >>)
                  /\ currentMusicChannel' = MusicChannelOut(played, new)
                  /\ chan' = IF played
                               THEN ChannelSetup(PlaySound(ch1, musicGroup, "music"),
                                                 new, volume, loop)
                               ELSE ch1

\* -------------------------------------------------------------- stopMusic
\* A stopMusic that keeps the pointer to the stopped channel.
StoppedSlotKept == currentMusicChannel

\* Line 176: currentMusicChannel = nullptr
StoppedSlot == NULL

StopMusic ==
    /\ ~fatal
    /\ UNCHANGED exVars
    /\ op' = Op("stopMusic", "", FALSE, 0)
    /\ before' = Snapshot
    /\ ret' = TRUE
    /\ UNCHANGED <<system, sounds, groupPtrs, sysGen, sysState, sndObj,
                   groupVol, fatal>>
    /\ IF currentMusicChannel # NULL
         THEN /\ calls' = <<Call("stop", currentMusicChannel, 0)>>
              /\ chan' = ChannelStop(chan, currentMusicChannel)
              /\ currentMusicChannel' = StoppedSlot
         ELSE /\ calls' = << >>
              /\ UNCHANGED <<chan, currentMusicChannel>>

\* ------------------------------------------------------------- pauseMusic
PauseMusic(pause) ==
    /\ ~fatal
    /\ UNCHANGED exVars
    /\ op' = Op("pauseMusic", "", pause, 0)
    /\ before' = Snapshot
    /\ ret' = TRUE
    /\ UNCHANGED <<mgrVars, sysGen, sysState, sndObj, groupVol, fatal>>
    /\ IF currentMusicChannel # NULL
         THEN /\ calls' = <<Call("setPaused", currentMusicChannel,
                                 IF pause THEN 1 ELSE 0)>>
              /\ chan' = ChannelSetPaused(chan, currentMusicChannel, pause)
         ELSE /\ calls' = << >>
              /\ UNCHANGED chan

\* ------------------------------------------- setCategoryVolume / master
\* A getChannelGroup whose voice case returns the SFX group.
getChannelGroupVoiceAsSfx(category) ==
    CASE category = CATEGORY_SFX -> sfxGroup
      [] category = CATEGORY_MUSIC -> musicGroup
      [] category = CATEGORY_VOICE -> sfxGroup
      [] OTHER -> NULL

\* getChannelGroup(category)
getChannelGroup(category) ==
    CASE category = CATEGORY_SFX -> sfxGroup
      [] category = CATEGORY_MUSIC -> musicGroup
      [] category = CATEGORY_VOICE -> voiceGroup
      [] OTHER -> NULL

\* The volume argument the setters hand to ChannelGroup::setVolume.
DeliveredVolume(volume) == volume

\* ChannelGroup::setVolume(volume) on group: the engine keeps the level it
\* is given (above 1 amplifies, below 0 inverts the signal).
GroupSetVolume(group, volume) ==
    IF GroupValid(group) THEN [groupVol EXCEPT ![GroupKind(group)] = volume]
    ELSE groupVol

\* The level the engine mixes channel c at, in thousandths: the channel's
\* own volume scaled by the volume of its group and, the category groups
\* being children of the master group, by the master volume.
EffectiveVolume(c) ==
    chan[c].vol * groupVol[KIND_MASTER] *
      (IF chan[c].group = KIND_MASTER THEN 10 ELSE groupVol[chan[c].group])

\* Lines 190-192 and 197-199: if (group) group->setVolume(volume)
SetGroupVolume(group, volume, crash) ==
    IF group # NULL
      THEN /\ calls' = <<Call("setVolume", group, DeliveredVolume(volume))>>
           /\ groupVol' = GroupSetVolume(group, DeliveredVolume(volume))
           /\ fatal' = (StaleGroup(group) /\ crash)
      ELSE /\ calls' = << >>
           /\ UNCHANGED <<groupVol, fatal>>

SetCategoryVolume(category, volume, crash) ==
    /\ ~fatal
    /\ UNCHANGED exVars
    /\ op' = [Op("setCategoryVolume", "", FALSE, volume) EXCEPT !.cat = category]
    /\ before' = Snapshot
    /\ ret' = TRUE
    /\ UNCHANGED <<mgrVars, sysGen, sysState, sndObj, chan>>
    /\ SetGroupVolume(getChannelGroup(category), volume, crash)

SetMasterVolume(volume, crash) ==
    /\ ~fatal
    /\ UNCHANGED exVars
    /\ op' = Op("setMasterVolume", "", FALSE, volume)
    /\ before' = Snapshot
    /\ ret' = TRUE
    /\ UNCHANGED <<mgrVars, sysGen, sysState, sndObj, chan>>
    /\ SetGroupVolume(masterGroup, volume, crash)

\* ----------------------------------------------------------------- update
\* The channels whose sound can reach its end: playing and not looping.
CanEnd == {c \in ChannelIds : chan[c].state = "playing" /\ ~chan[c].loop}

\* System::update(): the engine retires the channels in ended.
SystemUpdate(ended) ==
    [c \in ChannelIds |-> IF c \in ended THEN Dead ELSE chan[c]]

Update(ended) ==
    /\ ~fatal
    /\ UNCHANGED exVars
    /\ ended \subseteq CanEnd
    /\ op' = Op("update", "", FALSE, 0)
    /\ before' = Snapshot
    /\ ret' = TRUE
    /\ UNCHANGED <<mgrVars, sysGen, sysState, sndObj, groupVol, fatal>>
    /\ IF system # NULL
         THEN /\ calls' = <<Call("update", system, 0)>>
              /\ chan' = IF SystemLive THEN SystemUpdate(ended) ELSE chan
         ELSE /\ ended = {}
              /\ calls' = << >>
              /\ UNCHANGED chan

\* --------------------------------------------------------------- shutdown
\* std::map iterates its keys in ascending order.
NameOrder == <<"a", "b">>

\* A shutdown that releases the system only.
ReleaseCallsNone(i) == << >>

RECURSIVE ReleaseCalls(_)
\* Lines 214-216: one Sound::release per cache entry, in key order.
ReleaseCalls(i) ==
    IF i > Len(NameOrder) THEN << >>
    ELSE (IF Loaded(NameOrder[i])
            THEN <<Call("Sound::release", sounds[NameOrder[i]], 0)>>
            ELSE << >>) \o ReleaseCalls(i + 1)

\* System::release(): every sound, group and channel of the system is freed.
SystemRelease == [c \in ChannelIds |-> Dead]

Shutdown ==
    /\ ~fatal
    /\ UNCHANGED exVars
    /\ op' = Op("shutdown", "", FALSE, 0)
    /\ before' = Snapshot
    /\ ret' = TRUE
    /\ UNCHANGED <<groupPtrs, currentMusicChannel, sysGen, groupVol, fatal>>
    /\ sounds' = [n \in {} |-> NULL]
    /\ sndObj' = [s \in 1..Len(sndObj) |-> [sndObj[s] EXCEPT !.state = "released"]]
    /\ IF system # NULL
         THEN /\ calls' = ReleaseCalls(1) \o <<Call("System::release", system, 0)>>
              /\ sysState' = "released"
              /\ chan' = SystemRelease
              /\ system' = NULL
         ELSE /\ calls' = ReleaseCalls(1)
              /\ UNCHANGED <<sysState, chan, system>>

\* ======================================================= example programs
\* The three example programs drive the engine from main(): a set-up, a
\* polling loop (one action per iteration) and a clean-up.  Each is its own
\* process: it starts from the state in which nothing has run.
FMOD_OK == "FMOD_OK"
FMOD_ERR_INVALID_HANDLE == "FMOD_ERR_INVALID_HANDLE"
FMOD_ERR == "FMOD_ERR"      \* any other FMOD_RESULT

\* CheckError(result, description): exit(-1) unless result is FMOD_OK.
CheckError(result) == result # FMOD_OK

\* A loop that checks every result of the channel call.
CheckErrorAnyResult(result) == CheckError(result)

\* if (result != FMOD_OK && result != FMOD_ERR_INVALID_HANDLE) CheckError(...)
CheckErrorButHandle(result) ==
    result # FMOD_OK /\ result # FMOD_ERR_INVALID_HANDLE /\ CheckError(result)

\* The result of a call on a channel handle: FMOD_ERR_INVALID_HANDLE once
\* the channel has ended; engineOk: the call succeeds on a live channel.
ChannelResult(ch, c, engineOk) ==
    IF ~IsPlaying(ch, c) THEN FMOD_ERR_INVALID_HANDLE
    ELSE IF engineOk THEN FMOD_OK ELSE FMOD_ERR

\* The result of Channel::isPlaying: on a channel that has ended it is
\* FMOD_ERR_INVALID_HANDLE once the engine has invalidated the handle
\* (invalid), and FMOD_OK, with false written, until then.
IsPlayingResult(ch, c, engineOk, invalid) ==
    IF IsPlaying(ch, c) THEN (IF engineOk THEN FMOD_OK ELSE FMOD_ERR)
    ELSE IF invalid THEN FMOD_ERR_INVALID_HANDLE ELSE FMOD_OK

\* An isPlaying that leaves the caller's variable as it is when it fails:
\* true, in the wait loop of basic_playback.cpp.
IsPlayingOutUnwritten(ch, c, result) == result # FMOD_OK \/ IsPlaying(ch, c)

\* What Channel::isPlaying writes through its argument: false when it fails.
IsPlayingOut(ch, c, result) == result = FMOD_OK /\ IsPlaying(ch, c)

\* The channels whose handle an update may invalidate: their sound reaches
\* its end, or the engine takes the voice away (the loops test for it).
CanRetire == {c \in ChannelIds : chan[c].state = "playing"}

\* The checked calls of a set-up, up to the one that fails (failAt).
SetupCalls(steps, failAt) ==
    [i \in 1..(IF failAt = 0 THEN Len(steps) ELSE failAt) |->
       Call(steps[i], sysGen + 1, IF i = failAt THEN FMOD_ERR ELSE FMOD_OK)]

\* The engine after the set-up: the system made at step 1 and initialized at
\* step initAt, the sound created at step createAt, the channel started at
\* step playAt (null group) and given volume and loop mode.
SetupEngine(failAt, initAt, createAt, playAt, path, isStream, loop, volume) ==
    /\ sysGen' = IF StepDone(failAt, 1) THEN sysGen + 1 ELSE sysGen
    /\ sysState' = IF StepDone(failAt, initAt) THEN "inited"
                   ELSE IF StepDone(failAt, 1) THEN "created" ELSE sysState
    /\ sndObj' = IF StepDone(failAt, createAt)
                   THEN Append(sndObj, [path |-> path, stream |-> isStream,
                                        state |-> "loaded"])
                   ELSE sndObj
    /\ chan' = IF StepDone(failAt, playAt)
                 THEN ChannelSetup(PlaySound(chan, NULL, "none"), Len(chan) + 1,
                                   volume, loop)
                 ELSE chan
    /\ channel' = IF StepDone(failAt, playAt) THEN Len(chan) + 1 ELSE NULL
    /\ fatal' = (failAt # 0)

\* The clean-up calls: Channel::stop where the program makes it, then the
\* checked Sound::release and System::release; failAt counts the two
\* releases.
CleanupCalls(stops, failAt) ==
    (IF stops THEN <<Call("stop", channel, ChannelResult(chan, channel, TRUE))>>
              ELSE << >>) \o
    <<Call("Sound::release", Len(sndObj), IF failAt = 1 THEN FMOD_ERR ELSE FMOD_OK)>> \o
    (IF failAt = 1 THEN << >>
     ELSE <<Call("System::release", sysGen, IF failAt = 2 THEN FMOD_ERR ELSE FMOD_OK)>>)

Cleanup(stops, failAt) ==
    /\ calls' = CleanupCalls(stops, failAt)
    /\ fatal' = (failAt # 0)
    /\ pc' = IF failAt = 0 THEN "done" ELSE "exit"
    /\ sndObj' = IF StepDone(failAt, 1)
                   THEN [s \in 1..Len(sndObj) |-> [sndObj[s] EXCEPT !.state = "released"]]
                   ELSE sndObj
    /\ sysState' = IF StepDone(failAt, 2) THEN "released" ELSE sysState
    /\ chan' = IF StepDone(failAt, 2) THEN SystemRelease
               ELSE IF stops THEN ChannelStop(chan, channel) ELSE chan

\* ------------------------------------------------------- 3d_audio.cpp
Steps3D == <<"System_Create", "init", "set3DSettings", "createSound",
             "set3DMinMaxDistance", "playSound">>

\* Lines 90-91: duration / updateInterval, the iterations of the loop.
DurationTicks == 300
\* Lines 113 and 91: the iterations of one rotation (10 s / 0.05 s).
StepsPerTurn == 200
\* Line 142: angularSpeed * updateInterval, in units of the angle grid.  The
\* angle is a float; the grid has two units to the step so that the double
\* 2.0f * M_PI, which no float equals, lies between two of its points.
AngleStep == 2
\* Line 143: 2.0f * M_PI, just below the float that 200 steps add up to.
TwoPi == StepsPerTurn * AngleStep - 1

\* A loop that lets the angle grow.
NextAngleNoWrap(a) == a + AngleStep

\* Lines 142-145: angle += angularSpeed * updateInterval, wrapped.
NextAngle(a) ==
    IF a + AngleStep > TwoPi THEN a + AngleStep - TwoPi ELSE a + AngleStep

\* Lines 43-93.
Setup3D(failAt) ==
    /\ ~fatal
    /\ pc = "start"
    /\ op = NoOp
    /\ op' = Op("3d_audio setup", "", FALSE, failAt)
    /\ before' = Snapshot
    /\ ret' = (failAt = 0)
    /\ calls' = SetupCalls(Steps3D, failAt)
    /\ SetupEngine(failAt, 2, 4, 6, "sound.wav", FALSE, TRUE, 10)
    /\ pc' = IF failAt = 0 THEN "3d_audio loop" ELSE "exit"
    /\ angle' = 0
    /\ elapsedTime' = 0
    /\ UNCHANGED <<mgrVars, groupVol, isPlaying, orbitVars>>

\* A loop body that updates the engine before it pushes the attributes.
TickCalls3DUpdateFirst(listener, emitter) ==
    <<Call("update", sysGen, FMOD_OK),
      Call("set3DListenerAttributes", 0, listener)>> \o
    (IF CheckError(listener) THEN << >>
     ELSE <<Call("set3DAttributes", channel, emitter)>>)

\* Lines 97-126: the engine calls of one iteration, with their results.
TickCalls3D(listener, emitter) ==
    <<Call("set3DListenerAttributes", 0, listener)>> \o
    (IF CheckError(listener) THEN << >>
     ELSE <<Call("set3DAttributes", channel, emitter)>> \o
          (IF CheckErrorButHandle(emitter) THEN << >>
           ELSE <<Call("update", sysGen, FMOD_OK)>>))

\* Lines 95-149: one iteration.  The vectors pushed are soundPos and
\* soundVel at the angle of the iteration (ComputeOrbit below).
Tick3D(listenerOk, emitterOk, ended) ==
    /\ ~fatal
    /\ pc = "3d_audio loop"
    /\ elapsedTime < DurationTicks
    /\ op' = Op("3d_audio tick", "", FALSE, angle)
    /\ before' = Snapshot
    /\ ret' = TRUE
    /\ LET listener == IF listenerOk THEN FMOD_OK ELSE FMOD_ERR
           emitter == ChannelResult(chan, channel, emitterOk)
           exits == CheckError(listener) \/ CheckErrorButHandle(emitter)
       IN  /\ calls' = TickCalls3D(listener, emitter)
           /\ fatal' = exits
           /\ IF exits
                THEN /\ ended = {}
                     /\ pc' = "exit"
                     /\ UNCHANGED <<chan, angle, elapsedTime>>
                ELSE /\ ended \subseteq CanRetire
                     /\ chan' = SystemUpdate(ended)
                     /\ angle' = NextAngle(angle)
                     /\ elapsedTime' = elapsedTime + 1
                     /\ pc' = pc
    /\ UNCHANGED <<mgrVars, sysGen, sysState, sndObj, groupVol, channel,
                   isPlaying, orbitVars>>

\* Lines 151-160.
Finish3D(failAt) ==
    /\ ~fatal
    /\ pc = "3d_audio loop"
    /\ elapsedTime >= DurationTicks
    /\ op' = Op("3d_audio cleanup", "", FALSE, failAt)
    /\ before' = Snapshot
    /\ ret' = (failAt = 0)
    /\ Cleanup(TRUE, failAt)
    /\ UNCHANGED <<mgrVars, sysGen, groupVol, channel, isPlaying, elapsedTime,
                   angle, orbitVars>>

\* ------------------------------------------------- basic_playback.cpp
StepsBasic == <<"System_Create", "getVersion", "init", "createSound",
                "playSound">>

\* Lines 37-87; line 84 sets the channel volume to 0.8f, unchecked.
SetupBasic(failAt) ==
    /\ ~fatal
    /\ pc = "start"
    /\ op = NoOp
    /\ op' = Op("basic_playback setup", "", FALSE, failAt)
    /\ before' = Snapshot
    /\ ret' = (failAt = 0)
    /\ calls' = SetupCalls(StepsBasic, failAt)
    /\ SetupEngine(failAt, 3, 4, 5, "sound.wav", FALSE, FALSE, 8)
    /\ pc' = IF failAt = 0 THEN "basic_playback loop" ELSE "exit"
    /\ isPlaying' = TRUE
    /\ UNCHANGED <<mgrVars, groupVol, elapsedTime, angle, orbitVars>>

\* Lines 88-107: one iteration of the wait loop.  Channel::isPlaying
\* writes false through its argument when it fails.
TickBasic(ended, queryOk, invalid) ==
    /\ ~fatal
    /\ pc = "basic_playback loop"
    /\ isPlaying
    /\ ended \subseteq CanRetire
    /\ op' = Op("basic_playback tick", "", FALSE, 0)
    /\ before' = Snapshot
    /\ ret' = TRUE
    /\ LET ch1 == SystemUpdate(ended)
           result == IsPlayingResult(ch1, channel, queryOk, invalid)
       IN  /\ calls' = <<Call("update", sysGen, FMOD_OK),
                         Call("isPlaying", channel, result)>> \o
                       (IF CheckErrorButHandle(result) THEN << >>
                        ELSE <<Call("getPosition", channel,
                                    ChannelResult(ch1, channel, TRUE))>>)
           /\ chan' = ch1
           /\ isPlaying' = IsPlayingOut(ch1, channel, result)
           /\ fatal' = CheckErrorButHandle(result)
           /\ pc' = IF CheckErrorButHandle(result) THEN "exit" ELSE pc
    /\ UNCHANGED <<mgrVars, sysGen, sysState, sndObj, groupVol, channel,
                   elapsedTime, angle, orbitVars>>

\* Lines 109-123.
FinishBasic(failAt) ==
    /\ ~fatal
    /\ pc = "basic_playback loop"
    /\ ~isPlaying
    /\ op' = Op("basic_playback cleanup", "", FALSE, failAt)
    /\ before' = Snapshot
    /\ ret' = (failAt = 0)
    /\ Cleanup(FALSE, failAt)
    /\ UNCHANGED <<mgrVars, sysGen, groupVol, channel, isPlaying, elapsedTime,
                   angle, orbitVars>>

\* ------------------------------------------------------ streaming.cpp
StepsStreaming == <<"System_Create", "init", "createStream", "getFormat",
                    "playSound">>

\* Lines 82-83: totalTime / updateInterval, the iterations of the loop.
TotalTimeTicks == 200
\* Line 102: 0.3f + 0.3f * sin(elapsedTime * 2.0f) lies between 0 and 0.6.
FadeVolumes == {0, 3, 6}

\* Lines 39-83; line 74 sets the channel volume to 0.5f, unchecked.
SetupStreaming(failAt) ==
    /\ ~fatal
    /\ pc = "start"
    /\ op = NoOp
    /\ op' = Op("streaming setup", "", FALSE, failAt)
    /\ before' = Snapshot
    /\ ret' = (failAt = 0)
    /\ calls' = SetupCalls(StepsStreaming, failAt)
    /\ SetupEngine(failAt, 2, 3, 5, "music.mp3", TRUE, TRUE, 5)
    /\ pc' = IF failAt = 0 THEN "streaming loop" ELSE "exit"
    /\ elapsedTime' = 0
    /\ UNCHANGED <<mgrVars, groupVol, isPlaying, angle, orbitVars>>

\* Lines 85-117: one iteration; the loop is left (break) when the channel
\* does not play any more.
TickStreaming(ended, queryOk, invalid, volume) ==
    /\ ~fatal
    /\ pc = "streaming loop"
    /\ elapsedTime < TotalTimeTicks
    /\ ended \subseteq CanRetire
    /\ op' = Op("streaming tick", "", FALSE, volume)
    /\ before' = Snapshot
    /\ ret' = TRUE
    /\ LET ch1 == SystemUpdate(ended)
           result == IsPlayingResult(ch1, channel, queryOk, invalid)
           playing == IsPlayingOut(ch1, channel, result)
       IN  /\ calls' = <<Call("update", sysGen, FMOD_OK),
                         Call("isPlaying", channel, result)>> \o
                       (IF playing
                          THEN <<Call("setVolume", channel, FMOD_OK),
                                 Call("getPosition", channel, FMOD_OK)>>
                          ELSE << >>)
           /\ fatal' = CheckErrorButHandle(result)
           /\ chan' = IF playing THEN [ch1 EXCEPT ![channel].vol = volume] ELSE ch1
           /\ elapsedTime' = IF playing THEN elapsedTime + 1 ELSE elapsedTime
           /\ pc' = IF CheckErrorButHandle(result) THEN "exit"
                    ELSE IF playing THEN pc ELSE "streaming stop"
    /\ UNCHANGED <<mgrVars, sysGen, sysState, sndObj, groupVol, channel,
                   isPlaying, angle, orbitVars>>

\* Lines 119-131.
FinishStreaming(failAt) ==
    /\ ~fatal
    /\ \/ pc = "streaming loop" /\ elapsedTime >= TotalTimeTicks
       \/ pc = "streaming stop"
    /\ op' = Op("streaming cleanup", "", FALSE, failAt)
    /\ before' = Snapshot
    /\ ret' = (failAt = 0)
    /\ Cleanup(TRUE, failAt)
    /\ UNCHANGED <<mgrVars, sysGen, groupVol, channel, isPlaying, elapsedTime,
                   angle, orbitVars>>

\* ------------------------------------------- 3d_audio.cpp: the orbit
\* Lines 108-117 as a function of <<cos(angle), sin(angle)>>, in exact
\* arithmetic: the pair ranges over the points of the unit circle whose
\* coordinates are multiples of 1/Scale.
Scale == 65
UnitCircle ==
    {t \in (-Scale..Scale) \X (-Scale..Scale) : t[1] * t[1] + t[2] * t[2] = Scale * Scale}

\* Line 89: const float radius = 10.0f
radius == 10
\* Line 113: angularSpeed = 2.0f * M_PI / 10.0f, in thousandths.
AngularSpeedMilli == 628

\* Lines 108-110: soundPos, times Scale.
OrbitPosition(t) == <<radius * t[1], 0, radius * t[2]>>

\* A velocity whose x component lost its sign.
OrbitVelocityNoSign(t) ==
    <<radius * AngularSpeedMilli * t[2], 0, radius * AngularSpeedMilli * t[1]>>

\* Lines 115-117: soundVel, times Scale * 1000.
OrbitVelocity(t) ==
    <<(-radius) * AngularSpeedMilli * t[2], 0, radius * AngularSpeedMilli * t[1]>>

\* The loop is at some angle.
InitOrbit ==
    /\ InitManager
    /\ pc = "3d_audio orbit"
    /\ channel = NULL
    /\ isPlaying = FALSE
    /\ elapsedTime = 0
    /\ angle = 0
    /\ trig \in UnitCircle
    /\ soundPos = <<0, 0, 0>>
    /\ soundVel = <<0, 0, 0>>

\* Lines 107-117: the vectors of the iteration.
ComputeOrbit ==
    /\ pc = "3d_audio orbit"
    /\ op' = Op("3d_audio orbit", "", FALSE, 0)
    /\ soundPos' = OrbitPosition(trig)
    /\ soundVel' = OrbitVelocity(trig)
    /\ UNCHANGED <<mgrVars, sysGen, sysState, sndObj, chan, groupVol, ret, calls,
                   before, fatal, pc, channel, isPlaying, elapsedTime, angle, trig>>

\* Lines 142-145 seen through cos and sin: the next iteration is at
\* another angle.
TurnOrbit(t) ==
    /\ pc = "3d_audio orbit"
    /\ op.fn = "3d_audio orbit"
    /\ op' = Op("3d_audio angle", "", FALSE, 0)
    /\ trig' = t
    /\ UNCHANGED <<mgrVars, sysGen, sysState, sndObj, chan, groupVol, ret, calls,
                   before, fatal, pc, channel, isPlaying, elapsedTime, angle,
                   soundPos, soundVel>>

\* ------------------------------------------------------------------- Next
\* The outcomes of a call through a dangling or null pointer.
Crash(undefined) == IF undefined THEN BOOLEAN ELSE {FALSE}

\* The engine outcome of a call matters only where the call is made.
Outcome(called) == IF called THEN BOOLEAN ELSE {TRUE}

InitializeSome == \E failAt \in FailPoints : Initialize(failAt)

\* initialize() with a failure at any of its steps, or at none.
InitializeAny == \E failAt \in 0..Len(InitSteps) : Initialize(failAt)

LoadSoundOf(name, filepath, isStream) ==
    \E engineOk \in Outcome(~Loaded(name) /\ SystemLive),
       crash \in Crash(~Loaded(name) /\ system = NULL) :
         LoadSound(name, filepath, isStream, engineOk, crash)

LoadSoundSome ==
    \E name \in Names, filepath \in Paths, isStream \in BOOLEAN :
      LoadSoundOf(name, filepath, isStream)

LoadSoundMain == \E l \in MainLoads : LoadSoundOf(l[1], l[2], l[3])

PlaySFXSome(volumes) ==
    \E name \in Names, volume \in volumes :
      \E engineOk \in Outcome(Loaded(name)),
         crash \in Crash(Loaded(name) /\ StaleGroup(sfxGroup)) :
           PlaySFX(name, volume, engineOk, crash)

PlayMusicSome(volumes) ==
    \E name \in Names, loop \in BOOLEAN, volume \in volumes :
      \E engineOk \in Outcome(Loaded(name)),
         crash \in Crash(Loaded(name) /\ StaleGroup(musicGroup)) :
           PlayMusic(name, loop, volume, engineOk, crash)

SetCategoryVolumeSome ==
    \E category \in Categories, volume \in GroupVolsIn :
      \E crash \in Crash(StaleGroup(getChannelGroup(category))) :
        SetCategoryVolume(category, volume, crash)

SetMasterVolumeSome ==
    \E volume \in GroupVolsIn, crash \in Crash(StaleGroup(masterGroup)) :
      SetMasterVolume(volume, crash)

UpdateSome == \E ended \in SUBSET CanEnd : Update(ended)

Setup3DSome == \E failAt \in 0..Len(Steps3D) : Setup3D(failAt)

Tick3DSome ==
    \E listenerOk \in BOOLEAN :
      \E emitterOk \in Outcome(listenerOk /\ IsPlaying(chan, channel)) :
        \E ended \in SUBSET (IF listenerOk /\ emitterOk THEN CanRetire ELSE {}) :
          Tick3D(listenerOk, emitterOk, ended)

Finish3DSome == \E failAt \in 0..2 : Finish3D(failAt)

SetupBasicSome == \E failAt \in 0..Len(StepsBasic) : SetupBasic(failAt)

TickBasicSome ==
    \E ended \in SUBSET CanRetire :
      \E queryOk \in Outcome(IsPlaying(SystemUpdate(ended), channel)),
         invalid \in Outcome(~IsPlaying(SystemUpdate(ended), channel)) :
        TickBasic(ended, queryOk, invalid)

FinishBasicSome == \E failAt \in 0..2 : FinishBasic(failAt)

SetupStreamingSome == \E failAt \in 0..Len(StepsStreaming) : SetupStreaming(failAt)

TickStreamingSome ==
    \E ended \in SUBSET CanRetire :
      \E queryOk \in Outcome(IsPlaying(SystemUpdate(ended), channel)),
         invalid \in Outcome(~IsPlaying(SystemUpdate(ended), channel)) :
        \E volume \in (IF queryOk /\ IsPlaying(SystemUpdate(ended), channel)
                         THEN FadeVolumes ELSE {0}) :
          TickStreaming(ended, queryOk, invalid, volume)

FinishStreamingSome == \E failAt \in 0..2 : FinishStreaming(failAt)

TurnOrbitSome == \E t \in UnitCircle : TurnOrbit(t)

\* The 3D example.
Next3D ==
    \/ Setup3DSome
    \/ Tick3DSome
    \/ Finish3DSome

Spec3D == Init /\ [][Next3D]_vars

\* The orbit arithmetic of the 3D example, at every angle of UnitCircle.
NextOrbit ==
    \/ ComputeOrbit
    \/ TurnOrbitSome

SpecOrbit == InitOrbit /\ [][NextOrbit]_vars

\* The programs that keep a channel handle past the end of its channel:
\* the three example loops, and the playback controller around one sound
\* (a process is one of the examples or a user of the manager).
NextHandles ==
    \/ Setup3DSome
    \/ Tick3DSome
    \/ Finish3DSome
    \/ SetupBasicSome
    \/ TickBasicSome
    \/ FinishBasicSome
    \/ SetupStreamingSome
    \/ TickStreamingSome
    \/ FinishStreamingSome
    \/ pc = "start" /\ InitializeSome
    \/ pc = "start" /\ LoadSoundOf("a", "p1", FALSE)
    \/ pc = "start" /\ PlaySFXSome({10})
    \/ pc = "start" /\ PlayMusicSome({10})
    \/ pc = "start" /\ StopMusic
    \/ pc = "start" /\ \E pause \in BOOLEAN : PauseMusic(pause)
    \/ pc = "start" /\ UpdateSome
    \/ pc = "start" /\ Shutdown

SpecHandles == Init /\ [][NextHandles]_vars

\* main() of basic_playback.cpp runs on: its loop takes its next iteration
\* and, the loop left, the clean-up is made.
SpecHandlesFair ==
    /\ SpecHandles
    /\ WF_vars(TickBasicSome)
    /\ WF_vars(FinishBasicSome)

\* The life cycle: initialize with a failure at any step, around one load
\* and the volume setters.
NextInit ==
    \/ InitializeAny
    \/ LoadSoundOf("a", "p1", FALSE)
    \/ SetCategoryVolumeSome
    \/ SetMasterVolumeSome
    \/ Shutdown

SpecInit == Init /\ [][NextInit]_vars

\* Every method of the manager, with every input.
Next ==
    \/ InitializeSome
    \/ LoadSoundSome
    \/ PlaySFXSome(ChanVolsIn)
    \/ PlayMusicSome(ChanVolsIn)
    \/ StopMusic
    \/ \E pause \in BOOLEAN : PauseMusic(pause)
    \/ SetCategoryVolumeSome
    \/ SetMasterVolumeSome
    \/ UpdateSome
    \/ Shutdown

Spec == Init /\ [][Next]_vars

\* The cache and the playback controller: the group volumes stay as the
\* engine creates them and every sound is played at full volume.
NextPlayback ==
    \/ InitializeSome
    \/ LoadSoundMain
    \/ PlaySFXSome({10})
    \/ PlayMusicSome({10})
    \/ StopMusic
    \/ \E pause \in BOOLEAN : PauseMusic(pause)
    \/ UpdateSome
    \/ Shutdown

SpecPlayback == Init /\ [][NextPlayback]_vars

\* The channel group hierarchy: the volume setters around one music track.
NextVolume ==
    \/ InitializeSome
    \/ LoadSoundOf("b", "p2", TRUE)
    \/ \E volume \in ChanVolsIn :
         \E engineOk \in Outcome(Loaded("b")),
            crash \in Crash(Loaded("b") /\ StaleGroup(musicGroup)) :
              PlayMusic("b", TRUE, volume, engineOk, crash)
    \/ SetCategoryVolumeSome
    \/ SetMasterVolumeSome
    \/ Shutdown

SpecVolume == Init /\ [][NextVolume]_vars

\* The resource cache: every load, around one sound effect.
NextCache ==
    \/ InitializeSome
    \/ LoadSoundSome
    \/ PlaySFXSome({10})
    \/ Shutdown

SpecCache == Init /\ [][NextCache]_vars

\* The life cycle of the engine objects: every method around one sound,
\* initialize and shutdown in any order.
NextLifecycle ==
    \/ InitializeSome
    \/ LoadSoundOf("a", "p1", FALSE)
    \/ PlaySFXSome({10})
    \/ PlayMusicSome({10})
    \/ \E crash \in Crash(StaleGroup(sfxGroup)) :
         SetCategoryVolume(CATEGORY_SFX, 5, crash)
    \/ \E crash \in Crash(StaleGroup(masterGroup)) : SetMasterVolume(5, crash)
    \/ UpdateSome
    \/ Shutdown

SpecLifecycle == Init /\ [][NextLifecycle]_vars

\* ================================================================ claims
\* The live channels that playMusic started.
MusicLive == {c \in ChannelIds : ChannelLive(c) /\ chan[c].by = "music"}

\* C1: at most one channel started by playMusic is live in any state; and
\* when playMusic of a loaded name replaces music that was playing or
\* paused, the former channel is not live and, the engine having started
\* the new channel, that channel is the only live music channel.
C1_SingleMusic ==
    /\ Cardinality(MusicLive) <= 1
    /\ (op.fn = "playMusic" /\ calls # << >> /\ before.state # "Stopped")
         => /\ ~ChannelLive(before.slot)
            /\ currentMusicChannel # before.slot
            /\ currentMusicChannel # NULL => MusicLive = {currentMusicChannel}

\* playMusic(B) has just replaced the playing music of playMusic(A).
C1_Witness ==
    /\ op.fn = "playMusic"
    /\ before.state = "Playing"
    /\ currentMusicChannel # NULL
    /\ before.slot # currentMusicChannel
    /\ MusicLive = {currentMusicChannel}

\* C2: loadSound of a name that is in the cache returns true, makes no
\* engine call and leaves the cache entry (and the engine's sounds) as
\* they were, whatever path and stream flag it is given.
C2_LoadIdempotent ==
    [][(op'.fn = "loadSound" /\ Loaded(op'.name))
         => /\ ret'
            /\ calls' = << >>
            /\ sounds' = sounds
            /\ sndObj' = sndObj]_vars

\* A second loadSound of a cached name, with another path and stream flag
\* than the sound was created from.
C2_Witness ==
    /\ op.fn = "loadSound"
    /\ Loaded(op.name)
    /\ calls = << >>
    /\ ret
    /\ sndObj[sounds[op.name]].path # op.path
    /\ sndObj[sounds[op.name]].stream # op.flag

\* C3: playSFX and playMusic of a name that is not in the cache make no
\* engine call and change neither the channels (music keeps playing), nor
\* the music slot, the cache or the group volumes.
C3_NotLoadedNoEffect ==
    [][(op'.fn \in {"playSFX", "playMusic"} /\ ~Loaded(op'.name))
         => /\ calls' = << >>
            /\ chan' = chan
            /\ mgrVars' = mgrVars
            /\ groupVol' = groupVol
            /\ sndObj' = sndObj
            /\ sysState' = sysState]_vars

\* playMusic of an unknown name while music is playing.
C3_Witness ==
    /\ op.fn = "playMusic"
    /\ ~Loaded(op.name)
    /\ calls = << >>
    /\ before.state = "Playing"
    /\ SlotState = "Playing"

\* C4: loadSound of a name that is not in the cache makes one engine
\* creation call (createStream or createSound by the stream flag), so a
\* load after a failed load tries again; it returns true exactly when the
\* name is cached afterwards, and when the engine creates no sound it
\* returns false and the cache is as before.
C4_LoadFailure ==
    [][(op'.fn = "loadSound" /\ ~Loaded(op'.name))
         => /\ Len(calls') = 1
            /\ calls'[1].fn = CreateFn(op'.flag)
            /\ ret' <=> op'.name \in DOMAIN sounds'
            /\ sndObj' = sndObj => (~ret' /\ sounds' = sounds)]_vars

\* The engine has just failed a load while another name is cached.
C4_Witness ==
    /\ op.fn = "loadSound"
    /\ ~ret
    /\ SystemLive
    /\ ~Loaded(op.name)
    /\ DOMAIN sounds # {}
    /\ Len(sndObj) < MaxSounds

PauseTarget(state, pause) ==
    IF state = "Stopped" THEN "Stopped"
    ELSE IF pause THEN "Paused" ELSE "Playing"

\* C6: pauseMusic(true) takes a Playing slot to Paused, pauseMusic(false)
\* a Paused slot to Playing, and every other case leaves the slot state
\* as it is; pauseMusic never changes the slot pointer, starts no channel,
\* ends none and touches no channel but the slot's.
C6_PauseMusic ==
    [][op'.fn = "pauseMusic"
         => /\ SlotState' = PauseTarget(SlotState, op'.flag)
            /\ currentMusicChannel' = currentMusicChannel
            /\ Len(chan') = Len(chan)
            /\ \A c \in ChannelIds :
                 /\ ChannelLive(c) <=> IsPlaying(chan', c)
                 /\ c # currentMusicChannel => chan'[c] = chan[c]]_vars

\* pauseMusic(true) has just paused playing music.
C6_Witness ==
    /\ op.fn = "pauseMusic"
    /\ op.flag
    /\ before.state = "Playing"
    /\ SlotState = "Paused"
    /\ currentMusicChannel = before.slot

\* The number of engine calls playMusic makes before its play call.
CallsBeforePlay ==
    IF before.slot = NULL THEN 0 ELSE IF before.state = "Stopped" THEN 1 ELSE 2

C8_ShutdownSafe ==
    /\ op.fn = "shutdown"
         => /\ DOMAIN sounds = {}
            /\ \A s \in 1..Len(sndObj) : sndObj[s].state = "released"
            /\ SlotState = "Stopped"
    /\ (sysState = "released"
          /\ op.fn \in {"stopMusic", "pauseMusic", "playMusic", "update"})
         => (calls = << >> /\ ~fatal)

\* v clamped to [0, 1], in tenths.
Clamp01(v) == IF v < 0 THEN 0 ELSE IF v > 10 THEN 10 ELSE v

\* C9: the volume the setters hand to the engine group is their argument
\* clamped to [0, 1], and the volume of every group lies in [0, 1].
C9_VolumesClamped ==
    /\ \A k \in Kinds : groupVol[k] \in 0..10
    /\ (op.fn \in {"setCategoryVolume", "setMasterVolume"} /\ calls # << >>)
         => calls[1].val = Clamp01(op.vol)

\* C10: each category resolves to the group created for it, never to the
\* master group; setCategoryVolume(c, v) sets the volume of the group of c
\* and leaves the other groups' volumes, the manager's fields and the
\* channels as they were; setMasterVolume leaves every category volume,
\* the manager's fields and the channels as they were.
C10_VolumeFrame ==
    /\ [](\A c \in Categories :
            /\ getChannelGroup(c) # NULL => GroupKind(getChannelGroup(c)) = c
            /\ (op.fn = "initialize" /\ ret) => GroupValid(getChannelGroup(c)))
    /\ [][/\ op'.fn = "setCategoryVolume"
               => /\ \A k \in Kinds \ {op'.cat} : groupVol'[k] = groupVol[k]
                  /\ GroupValid(getChannelGroup(op'.cat))
                       => groupVol'[op'.cat] = op'.vol
                  /\ mgrVars' = mgrVars
                  /\ chan' = chan
          /\ op'.fn = "setMasterVolume"
               => /\ \A k \in Categories : groupVol'[k] = groupVol[k]
                  /\ mgrVars' = mgrVars
                  /\ chan' = chan]_vars

\* setCategoryVolume(Music) has just acted while SFX and Master hold
\* volumes set earlier.
C10_Witness ==
    /\ op.fn = "setCategoryVolume"
    /\ op.cat = CATEGORY_MUSIC
    /\ groupVol[CATEGORY_MUSIC] = 5
    /\ groupVol[CATEGORY_SFX] = 15
    /\ groupVol[CATEGORY_VOICE] = 10
    /\ groupVol[KIND_MASTER] = -5

\* C11: the effective volume of every live channel is the product of its
\* category volume, the master volume and its own volume, each of the three
\* clamped to [0, 1] before the multiplication (Music 0.8, Master 0.5 and
\* a handle volume of 1.0 give 0.4).
C11_EffectiveVolume ==
    \A c \in ChannelIds :
      ChannelLive(c)
        => EffectiveVolume(c)
             = Clamp01(chan[c].vol) * Clamp01(groupVol[KIND_MASTER]) *
                 (IF chan[c].group = KIND_MASTER THEN 10
                  ELSE Clamp01(groupVol[chan[c].group]))

\* The functions of the engine calls of the last operation, in order.
CallFns == [i \in 1..Len(calls) |-> calls[i].fn]

\* C12: in every iteration of the 3D loop the engine calls are, in this
\* order, the listener attributes (listener index 0), the emitter's 3D
\* attributes and the engine update, each made once; so it is too in an
\* iteration whose emitter push returns FMOD_ERR_INVALID_HANDLE.  An
\* iteration that CheckError ends makes the calls up to the failing one
\* and no update.
C12_TickOrder ==
    op.fn = "3d_audio tick"
      => /\ calls[1].obj = 0
         /\ ~fatal => CallFns = <<"set3DListenerAttributes", "set3DAttributes",
                                  "update">>
         /\ fatal => CallFns \in {<<"set3DListenerAttributes">>,
                                  <<"set3DListenerAttributes", "set3DAttributes">>}
         /\ (Len(calls) >= 2 /\ calls[2].val = FMOD_ERR_INVALID_HANDLE) => ~fatal

\* An iteration whose emitter push found the channel ended.
C12_Witness ==
    /\ op.fn = "3d_audio tick"
    /\ Len(calls) = 3
    /\ calls[2].val = FMOD_ERR_INVALID_HANDLE
    /\ calls[3].fn = "update"

\* The iterations of the three polling loops.
TickOps == {"3d_audio tick", "basic_playback tick", "streaming tick"}

\* C13: a call on a handle whose channel has ended is not fatal and finds
\* the channel stopped.  In the polling loops an iteration in which a call
\* returns FMOD_ERR_INVALID_HANDLE does not end the process.  In the manager
\* playMusic, pauseMusic and stopMusic on a slot whose channel has ended
\* leave every channel as it was (playMusic, which finds the channel not
\* playing and makes no stop call, only adds its new one), leave
\* the slot Stopped unless playMusic starts new music, and fault only
\* through a stale group pointer handed to the play call, never through
\* the ended handle.
C13_InvalidHandleTolerated ==
    [][/\ op'.fn \in TickOps
            => \A i \in 1..Len(calls') :
                 calls'[i].val = FMOD_ERR_INVALID_HANDLE => ~fatal'
       /\ (/\ op'.fn \in {"playMusic", "pauseMusic", "stopMusic"}
           /\ currentMusicChannel # NULL
           /\ ~ChannelLive(currentMusicChannel))
            => /\ \A c \in ChannelIds : chan'[c] = chan[c]
               /\ op'.fn = "playMusic"
                    => \A i \in 1..Len(calls') : calls'[i].fn # "stop"
               /\ op'.fn # "playMusic" => (SlotState' = "Stopped" /\ ~fatal')
               /\ fatal' => StaleGroup(musicGroup)]_vars

\* playMusic of a loaded name has just found the channel of its slot
\* ended, while a sound effect was playing.
C13_Witness ==
    /\ op.fn = "playMusic"
    /\ Loaded(op.name)
    /\ before.slot # NULL
    /\ before.state = "Stopped"
    /\ calls[1] = Call("isPlaying", before.slot, 0)
    /\ SlotState = "Playing"
    /\ \E c \in ChannelIds : ChannelLive(c) /\ chan[c].by = "sfx"

\* The sound objects the engine holds unreleased.
LoadedObjects == {s \in 1..Len(sndObj) : sndObj[s].state = "loaded"}

\* C15: every cache entry designates an unreleased engine sound of its own
\* and every such sound has an entry, so the sounds created and not yet
\* released are as many as the names in the cache; a loadSound that
\* succeeds on a name that was not cached makes one creation call,
\* createStream if its stream flag is set and createSound otherwise, and
\* caches under the name the sound that call created.
C15_OneCreationPerEntry ==
    /\ \A n \in DOMAIN sounds : sounds[n] \in LoadedObjects
    /\ \A n, m \in DOMAIN sounds : sounds[n] = sounds[m] => n = m
    /\ Cardinality(LoadedObjects) = Cardinality(DOMAIN sounds)
    /\ (op.fn = "loadSound" /\ ret /\ calls # << >>)
         => /\ Len(calls) = 1
            /\ calls[1].fn = (IF op.flag THEN "createStream" ELSE "createSound")
            /\ sounds[op.name] = Len(sndObj)
            /\ sndObj[sounds[op.name]].stream = op.flag
            /\ sndObj[sounds[op.name]].path = op.path

\* A streamed load has just added the second entry of the cache, next to
\* a sample.
C15_Witness ==
    /\ op.fn = "loadSound"
    /\ ret
    /\ op.flag
    /\ calls # << >>
    /\ Cardinality(DOMAIN sounds) = 2
    /\ \E n \in DOMAIN sounds : ~sndObj[sounds[n]].stream

GroupOfStep(i) ==
    CASE i = 3 -> sfxGroup [] i = 4 -> musicGroup [] i = 5 -> voiceGroup
      [] OTHER -> masterGroup

\* C17: initialize() never ends the process; it returns false exactly when
\* one of its six steps fails, the failing step being the last engine call
\* it makes and nothing a later step would establish being established
\* (no initialized system after a failure of the first two steps, no group
\* of a later step); it returns true only with the system initialized and
\* the SFX, Music, Voice and master groups of that system in their fields.
C17_InitResult ==
    op.fn = "initialize"
      => /\ ~fatal
         /\ ret <=> op.vol = 0
         /\ ret => /\ SystemLive
                   /\ system = sysGen
                   /\ Len(calls) = Len(InitSteps)
                   /\ \A i \in 3..6 : /\ GroupValid(GroupOfStep(i))
                                      /\ GroupKind(GroupOfStep(i)) = i - 3
         /\ ~ret => /\ Len(calls) = op.vol
                    /\ calls[op.vol].fn = InitSteps[op.vol]
                    /\ op.vol <= 2 => ~SystemLive
                    /\ \A i \in 3..6 : i >= op.vol => ~GroupValid(GroupOfStep(i))

\* initialize() has just failed at the creation of the Voice group, the
\* SFX and Music groups being created.
C17_Witness ==
    /\ op.fn = "initialize"
    /\ ~ret
    /\ op.vol = 5
    /\ SystemLive
    /\ GroupValid(sfxGroup)
    /\ GroupValid(musicGroup)
    /\ ~GroupValid(voiceGroup)

Dot(u, v) == u[1] * v[1] + u[2] * v[2] + u[3] * v[3]

\* C19: at every angle the position pushed lies at distance radius from
\* the listener at the origin (its square is the square of radius, in
\* units of 1/Scale) and the velocity pushed is orthogonal to it; at angle
\* 0, where cos is 1 and sin is 0, the position is (radius, 0, 0) and the
\* velocity (0, 0, radius * angularSpeed).
C19_OrbitInvariant ==
    op.fn = "3d_audio orbit"
      => /\ Dot(soundPos, soundPos) = (radius * Scale) * (radius * Scale)
         /\ Dot(soundVel, soundPos) = 0
         /\ trig = <<Scale, 0>>
              => /\ soundPos = <<radius * Scale, 0, 0>>
                 /\ soundVel = <<0, 0, radius * AngularSpeedMilli * Scale>>

\* The vectors have just been computed at an angle of the second quadrant.
C19_Witness ==
    /\ op.fn = "3d_audio orbit"
    /\ trig[1] < 0
    /\ trig[2] > 0
    /\ soundPos = OrbitPosition(trig)
    /\ soundVel[1] < 0
    /\ soundVel[3] < 0

\* C20: playMusic of a loaded name on a slot that is Paused stops the
\* paused channel: afterwards that channel is not live, the slot does not
\* hold it, and, the engine having started the new channel, the slot holds
\* that newest channel, which is playing (not paused) in the loop mode
\* asked for; so it is for both values of the loop flag.
C20_ReplacePaused ==
    (op.fn = "playMusic" /\ Loaded(op.name) /\ before.state = "Paused")
      => /\ ~ChannelLive(before.slot)
         /\ calls[2] = Call("stop", before.slot, 0)
         /\ currentMusicChannel # before.slot
         /\ currentMusicChannel # NULL <=> Len(calls) = 5
         /\ currentMusicChannel # NULL
              => /\ currentMusicChannel = Len(chan)
                 /\ chan[currentMusicChannel].state = "playing"
                 /\ chan[currentMusicChannel].loop = op.flag
                 /\ SlotState = "Playing"
                 /\ MusicLive = {currentMusicChannel}

\* playMusic with the loop flag set has just replaced paused music.
C20_Witness ==
    /\ op.fn = "playMusic"
    /\ op.flag
    /\ before.state = "Paused"
    /\ SlotState = "Playing"
    /\ currentMusicChannel # before.slot
    /\ chan[currentMusicChannel].loop

\* C21: in every state the music slot is empty or holds the handle of a
\* channel that is playing or paused: the handle is taken out of the slot
\* when its channel is stopped and when a track that does not loop reaches
\* its end.
C21_SlotLive ==
    currentMusicChannel # NULL => ChannelLive(currentMusicChannel)

\* The public methods of the manager.
ManagerOps == {"initialize", "loadSound", "playSFX", "playMusic", "stopMusic",
               "pauseMusic", "setCategoryVolume", "setMasterVolume", "update",
               "shutdown"}

\* C22: every engine call of a method of the manager is made on objects
\* that exist and are not released: a call on the system (a creation, a
\* play call, an update) finds the system pointer non-null and the system
\* initialized and not released; the sound played is an unreleased sound
\* and the group handed to the play call is not a group of a released
\* system; a group volume is set on a group of the live system; shutdown
\* releases sounds that are unreleased and a system that is not released.
C22_EngineUseSafe ==
    [][op'.fn \in ManagerOps
         => \A i \in 1..Len(calls') :
              /\ calls'[i].fn \in {"createSound", "createStream", "playSound", "update"}
                   => (system # NULL /\ SystemLive)
              /\ calls'[i].fn = "playSound"
                   => /\ calls'[i].obj \in LoadedObjects
                      /\ ~StaleGroup(calls'[i].val)
              /\ (calls'[i].fn = "setVolume"
                    /\ op'.fn \in {"setCategoryVolume", "setMasterVolume"})
                   => GroupValid(calls'[i].obj)
              /\ calls'[i].fn = "Sound::release" => calls'[i].obj \in LoadedObjects
              /\ calls'[i].fn = "System::release"
                   => (calls'[i].obj # NULL /\ sysState \in {"created", "inited"})]_vars

\* The positions in the call log (log) of the calls of function fn.
CallsOf(log, fn) == {i \in 1..Len(log) : log[i].fn = fn}

\* C23: shutdown makes release calls only: one Sound::release for each
\* sound of the cache, each on a sound that was not released before, and
\* after them at most one System::release, made exactly when the system
\* pointer is set, on a system that was not released before; afterwards the
\* cache is empty, no sound is left unreleased and the system pointer is
\* null, so that a shutdown that follows a shutdown (the destructor's after
\* an explicit one) makes no engine call.
C23_ReleaseOnce ==
    [][op'.fn = "shutdown"
         => /\ \A i \in 1..Len(calls') :
                 calls'[i].fn \in {"Sound::release", "System::release"}
            /\ \A n \in DOMAIN sounds :
                 Cardinality({i \in CallsOf(calls', "Sound::release") :
                                calls'[i].obj = sounds[n]}) = 1
            /\ \A i \in CallsOf(calls', "Sound::release") :
                 /\ calls'[i].obj \in LoadedObjects
                 /\ \E n \in DOMAIN sounds : sounds[n] = calls'[i].obj
            /\ Cardinality(CallsOf(calls', "System::release")) <= 1
            /\ CallsOf(calls', "System::release") # {} <=> system # NULL
            /\ \A i \in CallsOf(calls', "System::release") :
                 /\ i = Len(calls')
                 /\ calls'[i].obj = system
                 /\ system = sysGen
                 /\ sysState \in {"created", "inited"}
                 /\ sysState' = "released"
            /\ DOMAIN sounds' = {}
            /\ LoadedObjects' = {}
            /\ system' = NULL
            /\ op.fn = "shutdown" => calls' = << >>]_vars

\* A shutdown has just followed the shutdown that released two sounds and
\* the system: it made no call.
C23_Witness ==
    /\ op.fn = "shutdown"
    /\ calls = << >>
    /\ sysState = "released"
    /\ Len(sndObj) = 2
    /\ \A s \in 1..Len(sndObj) : sndObj[s].state = "released"
    /\ before.slot = NULL

\* The channel of basic_playback.cpp has ended and main() is in its loop.
BasicEnded == pc = "basic_playback loop" /\ ~IsPlaying(chan, channel)

\* C24: an iteration of the wait loop of basic_playback.cpp that finds the
\* channel ended, whether isPlaying returns FMOD_OK with false or
\* FMOD_ERR_INVALID_HANDLE, does not end the process and is the last one
\* (isPlaying is false after it); once the channel has ended the program
\* comes to its clean-up; and the clean-up releases the sound first and
\* then, the release of the sound giving no error, the system, after which
\* nothing is left unreleased.
C24_WaitLoopEnds ==
    /\ [][(op'.fn = "basic_playback tick" /\ ~IsPlaying(chan', channel))
            => /\ calls'[2].val \in {FMOD_OK, FMOD_ERR_INVALID_HANDLE}
               /\ ~isPlaying'
               /\ ~fatal'
               /\ pc' = "basic_playback loop"]_vars
    /\ BasicEnded ~> (op.fn = "basic_playback cleanup")
    /\ [](op.fn = "basic_playback cleanup"
            => /\ calls[1].fn = "Sound::release"
               /\ calls[1].val = FMOD_OK
                    => /\ Len(calls) = 2
                       /\ calls[2].fn = "System::release"
                       /\ LoadedObjects = {}
               /\ pc = "done"
                    => /\ calls[2].val = FMOD_OK
                       /\ sysState = "released"
                       /\ \A c \in ChannelIds : ~ChannelLive(c))

\* The iteration in which isPlaying returned FMOD_OK and false for the
\* channel that had ended: the loop is left.
C24_Witness ==
    /\ op.fn = "basic_playback tick"
    /\ pc = "basic_playback loop"
    /\ calls[2] = Call("isPlaying", channel, FMOD_OK)
    /\ ~IsPlaying(chan, channel)
    /\ ~isPlaying
    /\ ~fatal
====
